---- MODULE Spec2Model ----
(***************************************************************************)
(* label_sync (src/label_sync/main.go): the reconciliation of a label      *)
(* configuration (a tree of labels and their previous names) against the   *)
(* labels of the repositories of an organisation.                          *)
(*                                                                         *)
(* A Go pointer is a sequence of length at most one: Nil is the nil        *)
(* pointer, Ptr(x) points at x.  A Go map is a function whose DOMAIN is    *)
(* the set of its keys.  A Go slice is a sequence.                         *)
(***************************************************************************)
EXTENDS Integers, Sequences, FiniteSets, TLC

VARIABLES
    config,      \* the Configuration handed to SyncLabels
    now,         \* the reading of time.Now() in SyncLabels
    confirm,     \* the flag --confirm
    ghLabels,    \* the server: repository name -> the labels of the repository
    ghIssues,    \* the server: repository name -> the open issues, each the
                 \* set of the label names it carries; its index is its number
    currLabels,  \* RepoLabels: repository name -> the labels listed for it
    classified,  \* SyncLabels: Nil or Ptr of the maps required, archaic and dead
    updates,     \* SyncLabels' first result: Nil or Ptr(RepoUpdates)
    syncErr,     \* SyncLabels' second result: Nil or Ptr(error)
    updateChan,  \* DoUpdates: the repoUpdates no worker has received yet
    inflight,    \* DoUpdates: the repoUpdates the workers are running
    errChan,     \* DoUpdates: the number of errors sent to errChan
    pc,          \* where the run of SyncOrg stands
    round,       \* the number of the run
    lastApplied, \* the run before returned from DoUpdates without an error
    before,      \* DoUpdates: Nil or Ptr of the server and of updateChan as
                 \* DoUpdates filled it
    calls,       \* DoUpdates: number of a repoUpdate -> the calls of the client
                 \* made for it, in their order
    faults,      \* the number of calls that failed though the server would
                 \* not refuse them
    lastSync,    \* Nil or Ptr of the result of the call of SyncLabels before
    repoChan,    \* LoadLabels: the repositories no worker has received yet
    listing,     \* LoadLabels: the repositories the workers are listing
    labelsChan,  \* LoadLabels: the channel labels, repository name -> the
                 \* labels sent for it
    listErrs,    \* LoadLabels: the number of errors sent to its errChan
    listCalls    \* LoadLabels: repository name -> the results of the calls of
                 \* GetRepoLabels made for it, TRUE for no error

server == <<ghLabels, ghIssues>>
pool == <<updateChan, inflight, errChan>>
sync == <<classified, updates, syncErr>>
trace == <<before, calls, faults>>
fetch == <<repoChan, listing, labelsChan, listErrs, listCalls>>
vars == <<config, now, confirm, ghLabels, ghIssues, currLabels, classified, updates, syncErr,
          updateChan, inflight, errChan, pc, round, lastApplied, before, calls, faults,
          lastSync, repoChan, listing, labelsChan, listErrs, listCalls>>

----------------------------------------------------------------------------
(* Bounds of the model *)

MaxSize == 5     \* the size of an input (see Inputs)
MaxRepos == 2    \* repositories in the snapshot
MaxTime == 2     \* clock readings 1..MaxTime
MaxFlowSize == 4 \* the size of an input of a run of SyncOrg
MaxIssues == 1   \* open issues of a repository
MaxRuns == 2     \* runs of SyncOrg
MaxFailures == 2 \* calls that fail though the server would not refuse them
MaxQueue == 3    \* repoUpdates of a call of DoUpdates
MaxApplyIssues == 2 \* open issues of a repository in the runs of SpecApply

----------------------------------------------------------------------------
(* Values *)

Nil == <<>>
Ptr(x) == <<x>>

EmptyMap == [k \in {} |-> k]

Times == 1..MaxTime

\* strings.ToLower on the names of the model
ToLower(s) ==
    CASE s = "A" -> "a"
      [] s = "B" -> "b"
      [] s = "C" -> "c"
      [] OTHER -> s

\* time.Time.After
After(t, u) == t > u

\* The struct Label; the fields Target, ProwPlugin and AddedBy are read by
\* the docs action only.
MkLabel(name, color, description, previously, deleteAfter) ==
    [Name |-> name, Color |-> color, Description |-> description,
     Previously |-> previously, DeleteAfter |-> deleteAfter, parent |-> Nil]

\* The github.Label of a repository's list
GithubLabel(name, description, color) ==
    [Name |-> name, Description |-> description, Color |-> color]

\* The conversion of a github.Label to a Label in SyncLabels
FromGithub(l) == MkLabel(l.Name, l.Color, l.Description, <<>>, Nil)

RECURSIVE ConvertLabels(_)
ConvertLabels(repoLabels) ==
    IF repoLabels = <<>> THEN <<>>
    ELSE <<FromGithub(Head(repoLabels))>> \o ConvertLabels(Tail(repoLabels))

----------------------------------------------------------------------------
(* validate *)

\* A variant of seenKey that keeps the case of the name
seenKey_exact(l) == l.Name

\* validate(labels, parent, seen): the error (Nil when none) and the map seen
\* as the call leaves it.  A path is the sequence of the lowercase names the
\* code joins with ".".
\* The key of a label in the map seen
seenKey(l) == ToLower(l.Name)

RECURSIVE validate(_, _, _)
validate(labels, parent, seen) ==
    IF labels = <<>> THEN [err |-> Nil, seen |-> seen]
    ELSE LET l == Head(labels)
             name == seenKey(l)
             path == Append(parent, name)
         IN IF name \in DOMAIN seen
            THEN [err |-> Ptr([duplicate |-> name, at |-> path, other |-> seen[name]]),
                  seen |-> seen]
            ELSE LET sub == validate(l.Previously, path, (name :> path) @@ seen)
                 IN IF sub.err # Nil THEN sub
                    ELSE validate(Tail(labels), parent, sub.seen)

\* Configuration.validate
ConfigValidate(c) ==
    LET r == validate(c.Labels, <<>>, EmptyMap)
    IN IF r.err # Nil THEN Ptr([invalidConfig |-> r.err[1]]) ELSE Nil

----------------------------------------------------------------------------
(* ClassifyLabels *)

\* A variant of retired that retires a label at its DeleteAfter already
retired_atDeadline(l, t) == l.DeleteAfter # Nil /\ t >= l.DeleteAfter[1]

\* A variant of retired that retires a label as soon as its DeleteAfter is set
retired_whenSet(l, t) == l.DeleteAfter # Nil

\* The case of a label past its DeleteAfter
retired(l, t) == l.DeleteAfter # Nil /\ After(t, l.DeleteAfter[1])

\* A variant of firstOf that takes the label renamed last for the top
firstOf_immediate(parent, l) == Ptr(l)

\* first: the label at the top of the chain of l
firstOf(parent, l) == IF parent = Nil THEN Ptr(l) ELSE parent

\* A variant of live that does not look at DeleteAfter
live_anyDate(l, parent) == parent = Nil

\* The case of a live label
live(l, parent) == parent = Nil /\ l.DeleteAfter = Nil

\* The three maps required, archaic and dead are the fields of sets.
RECURSIVE ClassifyLabels(_, _, _, _)
ClassifyLabels(labels, sets, t, parent) ==
    IF labels = <<>> THEN sets
    ELSE LET l == Head(labels)
             first == firstOf(parent, l)
             lower == ToLower(l.Name)
             s1 == IF live(l, parent)
                   THEN [sets EXCEPT !.required = (lower :> l) @@ @]
                   ELSE IF retired(l, t)
                   THEN [sets EXCEPT !.dead = (lower :> l) @@ @]
                   ELSE IF parent # Nil
                   THEN [sets EXCEPT !.archaic = (lower :> [l EXCEPT !.parent = parent]) @@ @]
                   ELSE sets
             s2 == ClassifyLabels(l.Previously, s1, t, first)
         IN ClassifyLabels(Tail(labels), s2, t, parent)

Classify(c, t) ==
    ClassifyLabels(c.Labels, [required |-> EmptyMap, archaic |-> EmptyMap, dead |-> EmptyMap],
                   t, Nil)

----------------------------------------------------------------------------
(* The constructors of Update *)

\* A variant of kill that sets Wanted as well
kill_wanted(repo, label) ==
    [repo |-> repo, Why |-> "dead", Wanted |-> Ptr(label), Current |-> Ptr(label)]

kill(repo, label) ==
    [repo |-> repo, Why |-> "dead", Wanted |-> Nil, Current |-> Ptr(label)]

\* A variant of create that asks for a change of the label
create_asChange(repo, label) ==
    [repo |-> repo, Why |-> "change", Wanted |-> Ptr(label), Current |-> Ptr(label)]

create(repo, label) ==
    [repo |-> repo, Why |-> "missing", Wanted |-> Ptr(label), Current |-> Nil]

rename(repo, previous, wanted) ==
    [repo |-> repo, Why |-> "rename", Wanted |-> Ptr(wanted), Current |-> Ptr(previous)]

\* A variant of change that asks for the label to be created
change_asMissing(repo, label) ==
    [repo |-> repo, Why |-> "missing", Wanted |-> Ptr(label), Current |-> Nil]

change(repo, label) ==
    [repo |-> repo, Why |-> "change", Wanted |-> Ptr(label), Current |-> Ptr(label)]

\* A variant of move with Current and Wanted exchanged
move_swapped(repo, previous, wanted) ==
    [repo |-> repo, Why |-> "migrate", Wanted |-> Ptr(previous), Current |-> Ptr(wanted)]

move(repo, previous, wanted) ==
    [repo |-> repo, Why |-> "migrate", Wanted |-> Ptr(wanted), Current |-> Ptr(previous)]

----------------------------------------------------------------------------
(* SyncLabels, one repository *)

\* The loop over the repository's labels: the dead labels to delete and the
\* lowercase map current.
RECURSIVE CurrentLoop(_, _, _, _)
CurrentLoop(repo, labels, dead, acc) ==
    IF labels = <<>> THEN acc
    ELSE LET l == Head(labels)
             lower == ToLower(l.Name)
             acts == IF lower \in DOMAIN dead
                     THEN Append(acc.actions, kill(repo, l))
                     ELSE acc.actions
         IN CurrentLoop(repo, Tail(labels), dead,
                        [actions |-> acts, current |-> (lower :> l) @@ acc.current])

\* The label an archaic label is migrated to
Desired(l) == MkLabel(l.parent[1].Name, l.parent[1].Color, l.Description, <<>>, Nil)

\* A variant of pendingRename that leaves current as it is
pendingRename_forgotten(current, desiredName, desired) == current

\* current[desiredName] = desired: the pending rename, so that the loop over
\* required does not create the label as well
pendingRename(current, desiredName, desired) == (desiredName :> desired) @@ current

\* The loop over the map archaic, its keys visited in the order given
RECURSIVE ArchaicLoop(_, _, _, _)
ArchaicLoop(repo, order, archaic, acc) ==
    IF order = <<>> THEN acc
    ELSE LET name == Head(order)
             l == archaic[name]
         IN IF name \notin DOMAIN acc.current
            THEN ArchaicLoop(repo, Tail(order), archaic, acc)
            ELSE LET cur == acc.current[name]
                     desired == Desired(l)
                     desiredName == ToLower(l.parent[1].Name)
                 IN IF desiredName \in DOMAIN acc.current
                    THEN ArchaicLoop(repo, Tail(order), archaic,
                             [acc EXCEPT !.moveActions = Append(@, move(repo, cur, desired))])
                    ELSE ArchaicLoop(repo, Tail(order), archaic,
                             [acc EXCEPT !.actions = Append(@, rename(repo, cur, desired)),
                                         !.current = pendingRename(@, desiredName, desired)])

\* A variant of requiredActions that does not compare the descriptions
requiredActions_noDescription(repo, name, l, current) ==
    IF name \notin DOMAIN current
    THEN <<create(repo, l)>>
    ELSE LET cur == current[name]
         IN IF l.Name # cur.Name THEN <<rename(repo, cur, l)>>
            ELSE IF l.Color # cur.Color THEN <<change(repo, l)>>
            ELSE <<>>

\* The switch of the loop over required: the actions it appends for the
\* required label l
requiredActions(repo, name, l, current) ==
    IF name \notin DOMAIN current
    THEN <<create(repo, l)>>
    ELSE LET cur == current[name]
         IN IF l.Name # cur.Name THEN <<rename(repo, cur, l)>>
            ELSE IF l.Color # cur.Color THEN <<change(repo, l)>>
            ELSE IF l.Description # cur.Description THEN <<change(repo, l)>>
            ELSE <<>>

\* The loop over the map required, its keys visited in the order given
RECURSIVE RequiredLoop(_, _, _, _, _)
RequiredLoop(repo, order, required, current, actions) ==
    IF order = <<>> THEN actions
    ELSE RequiredLoop(repo, Tail(order), required, current,
                      actions \o requiredActions(repo, Head(order), required[Head(order)], current))

\* A variant of appendMoves that puts the moveActions first
appendMoves_first(actions, moveActions) == moveActions \o actions

\* The loop appending the moveActions to the actions
appendMoves(actions, moveActions) == actions \o moveActions

\* A variant of SyncRepo that does not validate the repository's labels
SyncRepo_unvalidated(repo, repoLabels, sets, archOrder, reqOrder) ==
    LET labels == ConvertLabels(repoLabels)
        a1 == CurrentLoop(repo, labels, sets.dead,
                          [actions |-> <<>>, current |-> EmptyMap])
        a2 == ArchaicLoop(repo, archOrder, sets.archaic,
                          [actions |-> a1.actions, current |-> a1.current,
                           moveActions |-> <<>>])
        a3 == RequiredLoop(repo, reqOrder, sets.required, a2.current, a2.actions)
    IN [err |-> Nil, actions |-> a3 \o a2.moveActions]

\* The body of the loop over the repositories: the validation error of the
\* repository (Nil when none) and the actions it adds.
SyncRepo(repo, repoLabels, sets, archOrder, reqOrder) ==
    LET labels == ConvertLabels(repoLabels)
        v == validate(labels, <<>>, EmptyMap)
    IN IF v.err # Nil
       THEN [err |-> Ptr([invalidLabels |-> repo, cause |-> v.err[1]]), actions |-> <<>>]
       ELSE LET a1 == CurrentLoop(repo, labels, sets.dead,
                                  [actions |-> <<>>, current |-> EmptyMap])
                a2 == ArchaicLoop(repo, archOrder, sets.archaic,
                                  [actions |-> a1.actions, current |-> a1.current,
                                   moveActions |-> <<>>])
                a3 == RequiredLoop(repo, reqOrder, sets.required, a2.current, a2.actions)
            IN [err |-> Nil, actions |-> appendMoves(a3, a2.moveActions)]

----------------------------------------------------------------------------
(* SyncLabels *)

\* The orders in which a range over a map with the keys S may visit them
Orders(S) ==
    {o \in [1..Cardinality(S) -> S] : \A i, j \in DOMAIN o : o[i] = o[j] => i = j}

\* The loop over the repositories in the order given; archOrder and reqOrder
\* give, for each repository, the order of its ranges over archaic and required.
RECURSIVE ReposLoop(_, _, _, _, _, _)
ReposLoop(repoOrder, repos, sets, archOrder, reqOrder, acc) ==
    IF repoOrder = <<>> THEN acc
    ELSE LET repo == Head(repoOrder)
             r == SyncRepo(repo, repos[repo], sets, archOrder[repo], reqOrder[repo])
         IN ReposLoop(Tail(repoOrder), repos, sets, archOrder, reqOrder,
                [validationErrors |-> IF r.err # Nil
                                      THEN Append(acc.validationErrors, r.err[1])
                                      ELSE acc.validationErrors,
                 actions |-> acc.actions \o r.actions])

\* u[a.repo] = append(u[a.repo], a) for every action in turn
RECURSIVE GroupByRepo(_, _)
GroupByRepo(actions, u) ==
    IF actions = <<>> THEN u
    ELSE LET a == Head(actions)
             old == IF a.repo \in DOMAIN u THEN u[a.repo] ELSE <<>>
         IN GroupByRepo(Tail(actions), (a.repo :> Append(old, a)) @@ u)

\* The results of SyncLabels when the maps are visited in the orders given
SyncLabelsResult(c, repos, t, repoOrder, archOrder, reqOrder) ==
    LET cerr == ConfigValidate(c)
    IN IF cerr # Nil
       THEN [updates |-> Nil, err |-> Ptr([invalidConfig |-> cerr[1]])]
       ELSE LET sets == Classify(c, t)
                acc == ReposLoop(repoOrder, repos, sets, archOrder, reqOrder,
                                 [validationErrors |-> <<>>, actions |-> <<>>])
            IN [updates |-> Ptr(GroupByRepo(acc.actions, EmptyMap)),
                err |-> IF Len(acc.validationErrors) > 0
                        THEN Ptr([labelValidationFailed |-> acc.validationErrors])
                        ELSE Nil]

SyncLabels ==
    /\ pc = "loaded"
    /\ LET sets == Classify(config, now)
       IN /\ \E repoOrder \in Orders(DOMAIN currLabels) :
             \E archOrder \in [DOMAIN currLabels -> Orders(DOMAIN sets.archaic)] :
             \E reqOrder \in [DOMAIN currLabels -> Orders(DOMAIN sets.required)] :
                LET r == SyncLabelsResult(config, currLabels, now, repoOrder, archOrder,
                                          reqOrder)
                IN /\ updates' = r.updates
                   /\ syncErr' = r.err
          /\ classified' = IF ConfigValidate(config) # Nil THEN Nil ELSE Ptr(sets)
    /\ pc' = "synced"
    /\ UNCHANGED <<fetch, config, now, confirm, server, currLabels, pool, round, lastApplied,
                   trace, lastSync>>

----------------------------------------------------------------------------
(* The client *)

\* The labels and the open issues of one repository, and what the calls of
\* the interface client do to them.  Names are compared without their case.
\* A call answers [ok, srv]: whether it returns no error, and the repository
\* after it.

HasLabel(labels, name) == \E i \in DOMAIN labels : ToLower(labels[i].Name) = ToLower(name)

Carries(issue, name) == \E n \in issue : ToLower(n) = ToLower(name)

Refused(srv) == [ok |-> FALSE, srv |-> srv]

AddRepoLabel(srv, name, description, color) ==
    IF HasLabel(srv.labels, name) THEN Refused(srv)
    ELSE [ok |-> TRUE,
          srv |-> [srv EXCEPT !.labels = Append(@, GithubLabel(name, description, color))]]

UpdateRepoLabel(srv, currentName, newName, description, color) ==
    IF \/ ~HasLabel(srv.labels, currentName)
       \/ ToLower(newName) # ToLower(currentName) /\ HasLabel(srv.labels, newName)
    THEN Refused(srv)
    ELSE [ok |-> TRUE,
          srv |-> [labels |-> [i \in DOMAIN srv.labels |->
                                  IF ToLower(srv.labels[i].Name) = ToLower(currentName)
                                  THEN GithubLabel(newName, description, color)
                                  ELSE srv.labels[i]],
                   issues |-> [i \in DOMAIN srv.issues |->
                                  {IF ToLower(n) = ToLower(currentName) THEN newName ELSE n
                                   : n \in srv.issues[i]}]]]

DeleteRepoLabel(srv, label) ==
    IF ~HasLabel(srv.labels, label) THEN Refused(srv)
    ELSE LET Other(l) == ToLower(l.Name) # ToLower(label)
         IN [ok |-> TRUE,
             srv |-> [labels |-> SelectSeq(srv.labels, Other),
                      issues |-> [i \in DOMAIN srv.issues |->
                                     {n \in srv.issues[i] : ToLower(n) # ToLower(label)}]]]

AddLabel(srv, number, label) ==
    IF number \notin DOMAIN srv.issues \/ ~HasLabel(srv.labels, label) THEN Refused(srv)
    ELSE [ok |-> TRUE,
          srv |-> [srv EXCEPT !.issues[number] =
                                  IF Carries(@, label) THEN @ ELSE @ \cup {label}]]

RemoveLabel(srv, number, label) ==
    IF number \notin DOMAIN srv.issues \/ ~Carries(srv.issues[number], label) THEN Refused(srv)
    ELSE [ok |-> TRUE,
          srv |-> [srv EXCEPT !.issues[number] = {n \in @ : ToLower(n) # ToLower(label)}]]

RECURSIVE Ascending(_)
Ascending(S) ==
    IF S = {} THEN <<>>
    ELSE LET m == CHOOSE x \in S : \A y \in S : x <= y IN <<m>> \o Ascending(S \ {m})

\* is:open repo:org/repo label:"current" -label:"wanted": the numbers of the
\* issues found
FindIssues(srv, current, wanted) ==
    Ascending({i \in DOMAIN srv.issues :
                  Carries(srv.issues[i], current) /\ ~Carries(srv.issues[i], wanted)})

Server(repo) == [labels |-> ghLabels[repo], issues |-> ghIssues[repo]]

\* A call may fail that the server would not refuse
MayFail == faults < MaxFailures

\* The call of the client named, with its arguments
Call(name, args) == [call |-> name, args |-> args]

\* What the server answers to the call c on the repository srv
Answer(srv, c) ==
    CASE c.call = "AddRepoLabel" -> AddRepoLabel(srv, c.args[1], c.args[2], c.args[3])
      [] c.call = "UpdateRepoLabel" ->
            UpdateRepoLabel(srv, c.args[1], c.args[2], c.args[3], c.args[4])
      [] c.call = "DeleteRepoLabel" -> DeleteRepoLabel(srv, c.args[1])
      [] c.call = "AddLabel" -> AddLabel(srv, c.args[1], c.args[2])
      [] c.call = "RemoveLabel" -> RemoveLabel(srv, c.args[1], c.args[2])
      [] OTHER -> [ok |-> TRUE, srv |-> srv]

\* The capacity of updateChan and of errChan
numUpdates == Len(before[1].queue)

\* errChan <- err goes through while errChan holds fewer than numUpdates
\* errors; on a full errChan the worker blocks, nobody receiving before
\* wg.Wait() is over
Sent(ok) == ok \/ errChan < numUpdates

\* Where the worker w is after a call: where it goes on (next), or blocked in
\* the send of the error
Goes(w, ok, next) ==
    IF Sent(ok) THEN next ELSE (inflight \ {w}) \cup {[w EXCEPT !.at = "blocked"]}

\* The worker w makes the call c: it returns no error (ok) and leaves the
\* repository as the server answers, or it returns an error, which the worker
\* sends to errChan, and leaves the repository as it was.
Called(w, c, ok) ==
    LET repo == w.item.repo
        res == Answer(Server(repo), c)
    IN /\ ok => res.ok
       /\ ~ok => (~res.ok \/ MayFail)
       /\ IF ok
          THEN /\ ghLabels' = [ghLabels EXCEPT ![repo] = res.srv.labels]
               /\ ghIssues' = [ghIssues EXCEPT ![repo] = res.srv.issues]
          ELSE UNCHANGED server
       /\ errChan' = IF ~ok /\ Sent(ok) THEN errChan + 1 ELSE errChan
       /\ faults' = IF ~ok /\ res.ok THEN faults + 1 ELSE faults
       /\ calls' = [calls EXCEPT ![w.item.n] =
                        Append(@, [call |-> c.call, args |-> c.args, ok |-> ok,
                                   refused |-> ~res.ok, result |-> <<>>])]

----------------------------------------------------------------------------
(* SyncOrg *)

maxConcurrentWorkers == 20

\* LoadRepos and LoadLabels: the labels of every repository, or the error of a
\* call that failed, with which SyncOrg returns
LoadLabels ==
    /\ pc = "start"
    /\ \E ok \in {b \in BOOLEAN : b \/ MayFail} :
          /\ IF ok THEN currLabels' = ghLabels /\ pc' = "loaded"
             ELSE currLabels' = currLabels /\ pc' = "failed"
          /\ faults' = IF ok THEN faults ELSE faults + 1
    /\ UNCHANGED <<fetch, config, now, confirm, server, sync, pool, round, lastApplied,
                   before, calls, lastSync>>

\* SyncOrg returns the error of SyncLabels
SyncFailed ==
    /\ pc = "synced"
    /\ syncErr # Nil
    /\ pc' = "failed"
    /\ UNCHANGED <<fetch, config, now, confirm, server, currLabels, sync, pool,
                   round, lastApplied, trace, lastSync>>

\* Running without --confirm, no mutations made
DryRun ==
    /\ pc = "synced"
    /\ syncErr = Nil
    /\ ~confirm
    /\ pc' = "dryrun"
    /\ UNCHANGED <<fetch, config, now, confirm, server, currLabels, sync, pool,
                   round, lastApplied, trace, lastSync>>

----------------------------------------------------------------------------
(* LoadRepos and LoadLabels, worker by worker *)

\* LoadRepos: the repositories of the organisation, or the error of GetRepos,
\* with which SyncOrg returns; LoadLabels fills repoChan with them and closes
\* it
LoadRepos ==
    /\ pc = "start"
    /\ \E ok \in {b \in BOOLEAN : b \/ MayFail} :
          /\ IF ok
             THEN /\ \E repos \in Orders(DOMAIN ghLabels) : repoChan' = repos
                  /\ listCalls' = [r \in DOMAIN ghLabels |-> <<>>]
                  /\ pc' = "listing"
             ELSE /\ repoChan' = repoChan
                  /\ listCalls' = listCalls
                  /\ pc' = "failed"
          /\ faults' = IF ok THEN faults ELSE faults + 1
    /\ listing' = {}
    /\ labelsChan' = EmptyMap
    /\ listErrs' = 0
    /\ UNCHANGED <<config, now, confirm, server, currLabels, sync, pool, round, lastApplied,
                   before, calls, lastSync>>

\* A worker that lists no repository receives the next one
ListReceive ==
    /\ pc = "listing"
    /\ repoChan # <<>>
    /\ Cardinality(listing) < maxConcurrentWorkers
    /\ listing' = listing \cup {Head(repoChan)}
    /\ repoChan' = Tail(repoChan)
    /\ UNCHANGED <<labelsChan, listErrs, listCalls, config, now, confirm, server, currLabels,
                   sync, pool, pc, round, lastApplied, trace, lastSync>>

\* A variant of sendListErr that sends no error
sendListErr_silent(ok) == listErrs

\* errChan <- err, when GetRepoLabels returned an error
sendListErr(ok) == IF ok THEN listErrs ELSE listErrs + 1

\* A worker calls GetRepoLabels for its repository, sends the error if there
\* is one, and sends the labels it got, none after an error
GetRepoLabels ==
    /\ pc = "listing"
    /\ \E repository \in listing :
       \E ok \in {b \in BOOLEAN : b \/ MayFail} :
          /\ listCalls' = [listCalls EXCEPT ![repository] = Append(@, ok)]
          /\ listErrs' = sendListErr(ok)
          /\ labelsChan' = (repository :> (IF ok THEN ghLabels[repository] ELSE <<>>))
                               @@ labelsChan
          /\ listing' = listing \ {repository}
          /\ faults' = IF ok THEN faults ELSE faults + 1
    /\ UNCHANGED <<repoChan, config, now, confirm, server, currLabels, sync, pool, pc, round,
                   lastApplied, before, calls, lastSync>>

\* A variant of afterLoadLabels that goes on after an error
afterLoadLabels_ignoring == "loaded"

\* SyncOrg returns the error of LoadLabels, or goes on to SyncLabels
afterLoadLabels == IF listErrs > 0 THEN "failed" ELSE "loaded"

\* wg.Wait() is over: LoadLabels returns what was sent to labels as one map,
\* and the errors of errChan, if any
LoadLabelsReturn ==
    /\ pc = "listing"
    /\ repoChan = <<>>
    /\ listing = {}
    /\ currLabels' = labelsChan
    /\ pc' = afterLoadLabels
    /\ UNCHANGED <<fetch, config, now, confirm, server, sync, pool, round, lastApplied,
                   trace, lastSync>>

----------------------------------------------------------------------------
(* DoUpdates *)

\* The repoUpdates of the repositories in the order given, numbered from n + 1
RECURSIVE Enqueue(_, _, _)
Enqueue(order, ru, n) ==
    IF order = <<>> THEN <<>>
    ELSE LET repo == Head(order)
         IN [i \in DOMAIN ru[repo] |-> [n |-> n + i, repo |-> repo, update |-> ru[repo][i]]]
            \o Enqueue(Tail(order), ru, n + Len(ru[repo]))

\* A variant of DoUpdatesSend that is reached without --confirm as well
DoUpdatesSend_unconfirmed ==
    /\ pc = "synced"
    /\ syncErr = Nil
    /\ \E order \in Orders(DOMAIN updates[1]) :
          updateChan' = Enqueue(order, updates[1], 0)
    /\ Len(updateChan') <= MaxQueue
    /\ inflight' = {}
    /\ errChan' = 0
    /\ before' = Ptr([labels |-> ghLabels, issues |-> ghIssues, queue |-> updateChan'])
    /\ calls' = [n \in DOMAIN updateChan' |-> <<>>]
    /\ pc' = "updating"
    /\ UNCHANGED <<fetch, config, now, confirm, server, currLabels, sync,
                   round, lastApplied, faults, lastSync>>

\* DoUpdates fills updateChan, the map ru visited in some order, and closes it
DoUpdatesSend ==
    /\ pc = "synced"
    /\ syncErr = Nil
    /\ confirm
    /\ \E order \in Orders(DOMAIN updates[1]) :
          updateChan' = Enqueue(order, updates[1], 0)
    /\ Len(updateChan') <= MaxQueue
    /\ inflight' = {}
    /\ errChan' = 0
    /\ before' = Ptr([labels |-> ghLabels, issues |-> ghIssues, queue |-> updateChan'])
    /\ calls' = [n \in DOMAIN updateChan' |-> <<>>]
    /\ pc' = "updating"
    /\ UNCHANGED <<fetch, config, now, confirm, server, currLabels, sync,
                   round, lastApplied, faults, lastSync>>

\* A worker that runs no update receives the next one
Receive ==
    /\ pc = "updating"
    /\ updateChan # <<>>
    /\ Cardinality(inflight) < maxConcurrentWorkers
    /\ inflight' = inflight \cup {[item |-> Head(updateChan), at |-> "switch", issues |-> <<>>]}
    /\ updateChan' = Tail(updateChan)
    /\ UNCHANGED <<fetch, config, now, confirm, server, currLabels, sync, errChan,
                   pc, round, lastApplied, trace, lastSync>>

\* What a step of a worker leaves alone
Kept == <<fetch, config, now, confirm, currLabels, sync, updateChan, pc, round, lastApplied,
          before, lastSync>>

\* The worker w makes the one call of its update and is done with it
OneCall(w, c) ==
    /\ \E ok \in BOOLEAN : Called(w, c, ok) /\ inflight' = Goes(w, ok, inflight \ {w})
    /\ UNCHANGED Kept

RunMissing ==
    /\ pc = "updating"
    /\ \E w \in inflight :
          /\ w.at = "switch" /\ w.item.update.Why = "missing"
          /\ LET u == w.item.update
             IN OneCall(w, Call("AddRepoLabel", <<u.Wanted[1].Name, u.Wanted[1].Description,
                                                 u.Wanted[1].Color>>))

\* A variant of RunChangeOrRename that names the label to update by Wanted
RunChangeOrRename_byWanted ==
    /\ pc = "updating"
    /\ \E w \in inflight :
          /\ w.at = "switch" /\ w.item.update.Why \in {"change", "rename"}
          /\ LET u == w.item.update
             IN OneCall(w, Call("UpdateRepoLabel", <<u.Wanted[1].Name, u.Wanted[1].Name,
                                                    u.Wanted[1].Description,
                                                    u.Wanted[1].Color>>))

RunChangeOrRename ==
    /\ pc = "updating"
    /\ \E w \in inflight :
          /\ w.at = "switch" /\ w.item.update.Why \in {"change", "rename"}
          /\ LET u == w.item.update
             IN OneCall(w, Call("UpdateRepoLabel", <<u.Current[1].Name, u.Wanted[1].Name,
                                                    u.Wanted[1].Description,
                                                    u.Wanted[1].Color>>))

RunDead ==
    /\ pc = "updating"
    /\ \E w \in inflight :
          /\ w.at = "switch" /\ w.item.update.Why = "dead"
          /\ OneCall(w, Call("DeleteRepoLabel", <<w.item.update.Current[1].Name>>))

\* default: the reason is none of the five; the error is sent, no call made
RunDefault ==
    /\ pc = "updating"
    /\ \E w \in inflight :
          /\ w.at = "switch"
          /\ w.item.update.Why \notin {"missing", "change", "rename", "dead", "migrate"}
          /\ inflight' = Goes(w, FALSE, inflight \ {w})
          /\ errChan' = IF Sent(FALSE) THEN errChan + 1 ELSE errChan
    /\ UNCHANGED <<server, calls, faults>>
    /\ UNCHANGED Kept

\* migrate: the search; its error is sent and the worker goes on with no issues
MigrateFind ==
    /\ pc = "updating"
    /\ \E w \in inflight :
          /\ w.at = "switch" /\ w.item.update.Why = "migrate"
          /\ \E ok \in {b \in BOOLEAN : b \/ MayFail} :
                LET u == w.item.update
                    found == IF ok THEN FindIssues(Server(w.item.repo), u.Current[1].Name,
                                                   u.Wanted[1].Name)
                             ELSE <<>>
                IN /\ inflight' = Goes(w, ok, (inflight \ {w})
                                     \cup {[w EXCEPT !.at = IF found = <<>> THEN "delete" ELSE "add",
                                                     !.issues = found]})
                   /\ errChan' = IF ~ok /\ Sent(ok) THEN errChan + 1 ELSE errChan
                   /\ faults' = IF ok THEN faults ELSE faults + 1
                   /\ calls' = [calls EXCEPT ![w.item.n] =
                                    Append(@, [call |-> "FindIssues",
                                               args |-> <<u.Current[1].Name, u.Wanted[1].Name>>,
                                               ok |-> ok, refused |-> FALSE,
                                               result |-> found])]
          /\ UNCHANGED server
          /\ UNCHANGED Kept

\* A variant of MigrateDelete that deletes the wanted label
MigrateDelete_wanted ==
    /\ pc = "updating"
    /\ \E w \in inflight :
          /\ w.at = "delete"
          /\ OneCall(w, Call("DeleteRepoLabel", <<w.item.update.Wanted[1].Name>>))

\* migrate: no issue found, the label is deleted
MigrateDelete ==
    /\ pc = "updating"
    /\ \E w \in inflight :
          /\ w.at = "delete"
          /\ OneCall(w, Call("DeleteRepoLabel", <<w.item.update.Current[1].Name>>))

\* A variant of NextIssue that deletes the label after the last issue
NextIssue_thenDelete(w) ==
    IF Len(w.issues) > 1
    THEN (inflight \ {w}) \cup {[w EXCEPT !.at = "add", !.issues = Tail(@)]}
    ELSE (inflight \ {w}) \cup {[w EXCEPT !.at = "delete"]}

\* What the worker w does after the issue at the head of w.issues
NextIssue(w) ==
    IF Len(w.issues) > 1
    THEN (inflight \ {w}) \cup {[w EXCEPT !.at = "add", !.issues = Tail(@)]}
    ELSE inflight \ {w}

\* What the worker w does after AddLabel: RemoveLabel, or after an error the
\* next issue
afterAdd(w, ok) ==
    IF ok THEN (inflight \ {w}) \cup {[w EXCEPT !.at = "remove"]} ELSE NextIssue(w)

\* migrate: the wanted label is added to the issue
MigrateAdd ==
    /\ pc = "updating"
    /\ \E w \in inflight :
          /\ w.at = "add"
          /\ \E ok \in BOOLEAN :
                /\ Called(w, Call("AddLabel", <<Head(w.issues), w.item.update.Wanted[1].Name>>),
                          ok)
                /\ inflight' = Goes(w, ok, afterAdd(w, ok))
          /\ UNCHANGED Kept

\* migrate: the current label is removed from the issue
MigrateRemove ==
    /\ pc = "updating"
    /\ \E w \in inflight :
          /\ w.at = "remove"
          /\ \E ok \in BOOLEAN :
                /\ Called(w, Call("RemoveLabel", <<Head(w.issues), w.item.update.Current[1].Name>>),
                          ok)
                /\ inflight' = Goes(w, ok, NextIssue(w))
          /\ UNCHANGED Kept

\* A variant of DoUpdatesReturn that does not wait for the workers
DoUpdatesReturn_early ==
    /\ pc = "updating"
    /\ updateChan = <<>>
    /\ pc' = IF errChan > 0 THEN "failed" ELSE "updated"
    /\ UNCHANGED <<fetch, config, now, confirm, server, currLabels, sync, pool,
                   round, lastApplied, trace, lastSync>>

\* wg.Wait() is over: DoUpdates returns the errors of errChan, if any
DoUpdatesReturn ==
    /\ pc = "updating"
    /\ updateChan = <<>>
    /\ inflight = {}
    /\ pc' = IF errChan > 0 THEN "failed" ELSE "updated"
    /\ UNCHANGED <<fetch, config, now, confirm, server, currLabels, sync, pool,
                   round, lastApplied, trace, lastSync>>

\* The program is run again, its run having the number r
Again(r) ==
    /\ pc \in {"failed", "dryrun", "updated"}
    /\ round' = r
    /\ lastApplied' = (pc = "updated")
    /\ pc' = "start"
    /\ currLabels' = EmptyMap
    /\ classified' = Nil
    /\ updates' = Nil
    /\ syncErr' = Nil
    /\ updateChan' = <<>>
    /\ inflight' = {}
    /\ errChan' = 0
    /\ before' = Nil
    /\ calls' = <<>>
    /\ repoChan' = <<>>
    /\ listing' = {}
    /\ labelsChan' = EmptyMap
    /\ listErrs' = 0
    /\ listCalls' = EmptyMap
    /\ UNCHANGED <<config, now, confirm, server, faults, lastSync>>

NextRun == round < MaxRuns /\ Again(round + 1)

\* DoUpdates cannot return: every worker that has not left its loop is
\* blocked in a send to errChan, wg.Wait() waiting for them
Stuck ==
    /\ before # Nil /\ pc = "updating" /\ updateChan = <<>>
    /\ inflight # {} /\ \A w \in inflight : w.at = "blocked"

\* The process stuck in DoUpdates is ended from outside, as a run that failed
Abort ==
    /\ Stuck
    /\ pc' = "failed"
    /\ inflight' = {}
    /\ UNCHANGED <<fetch, config, now, confirm, server, currLabels, sync, updateChan, errChan,
                   round, lastApplied, trace, lastSync>>

\* SyncOrg is run again and again, the runs counted up to MaxRuns
Rerun ==
    /\ pc \in {"failed", "updated"}
    /\ Again(IF round < MaxRuns THEN round + 1 ELSE round)

----------------------------------------------------------------------------
(* The inputs *)

\* An input is a configuration, a snapshot of the repositories' labels and a
\* clock reading.  Its size is the number of labels of the configuration, plus
\* the number of labels the snapshot lists, plus the number of repositories
\* after the first, plus the number of its specials.  In an input without
\* specials every name is lowercase, every color is "c1", every description
\* is "d1", no label has a DeleteAfter and the clock reads MaxTime; a special
\* changes one of these in one place.

Keys == {"a", "b", "c"}

ToUpper(s) ==
    CASE s = "a" -> "A"
      [] s = "b" -> "B"
      [] s = "c" -> "C"
      [] OTHER -> s

PlainLabel(name, previously) == MkLabel(name, "c1", "d1", previously, Nil)

\* The label lists (a label's Previously included) holding n labels in all
RECURSIVE PlainForests(_)
PlainForests(n) ==
    IF n = 0 THEN {<<>>}
    ELSE UNION {
           {<<PlainLabel(a, p)>> \o rest :
                a \in Keys, p \in PlainForests(k), rest \in PlainForests(n - 1 - k)}
           : k \in 0..(n - 1)}

RECURSIVE Size(_)
Size(f) == IF f = <<>> THEN 0 ELSE 1 + Size(Head(f).Previously) + Size(Tail(f))

Special(at, repo, i, f, t) == [at |-> at, repo |-> repo, i |-> i, f |-> f, t |-> t]

\* The labels of f changed as sp says; the labels are counted depth first,
\* the first one being base + 1.
RECURSIVE DecorateForest(_, _, _)
DecorateForest(f, base, sp) ==
    IF f = <<>> THEN <<>>
    ELSE LET l == Head(f)
             i == base + 1
             dates == {s.t : s \in {x \in sp : x.at = "cfg" /\ x.i = i /\ x.f = "retire"}}
             l2 == MkLabel(
                     IF Special("cfg", "", i, "upper", 0) \in sp THEN ToUpper(l.Name) ELSE l.Name,
                     IF Special("cfg", "", i, "color", 0) \in sp THEN "c2" ELSE l.Color,
                     IF Special("cfg", "", i, "desc", 0) \in sp THEN "d2" ELSE l.Description,
                     DecorateForest(l.Previously, i, sp),
                     IF dates = {} THEN Nil ELSE Ptr(CHOOSE t \in dates : TRUE))
         IN <<l2>> \o DecorateForest(Tail(f), i + Size(l.Previously), sp)

DecorateList(repo, names, sp) ==
    [i \in DOMAIN names |->
        GithubLabel(
            IF Special("repo", repo, i, "upper", 0) \in sp THEN ToUpper(names[i]) ELSE names[i],
            IF Special("repo", repo, i, "desc", 0) \in sp THEN "d2" ELSE "d1",
            IF Special("repo", repo, i, "color", 0) \in sp THEN "c2" ELSE "c1")]

RepoList == <<"r1", "r2", "r3">>

\* The snapshots of the repositories rs that list at most b labels in all
RECURSIVE SnapshotsOver(_, _)
SnapshotsOver(rs, b) ==
    IF rs = <<>> THEN {EmptyMap}
    ELSE UNION {
           {(Head(rs) :> names) @@ rest :
                names \in [1..n -> Keys], rest \in SnapshotsOver(Tail(rs), b - n)}
           : n \in 0..b}

\* The snapshots of size at most b
PlainSnapshots(b) ==
    UNION {SnapshotsOver(SubSeq(RepoList, 1, k), b - (IF k > 1 THEN k - 1 ELSE 0))
           : k \in {j \in 0..MaxRepos : j <= Len(RepoList) /\ j - 1 <= b}}

RECURSIVE Listed(_, _)
Listed(snap, R) ==
    IF R = {} THEN 0
    ELSE LET r == CHOOSE x \in R : TRUE IN Len(snap[r]) + Listed(snap, R \ {r})

SnapshotSize(s) ==
    Listed(s, DOMAIN s) + (IF Cardinality(DOMAIN s) > 1 THEN Cardinality(DOMAIN s) - 1 ELSE 0)

\* The specials of a configuration f and a snapshot s, of the kinds given
Specials(f, s, kinds) ==
    {Special("cfg", "", i, x, 0) : i \in 1..Size(f), x \in kinds \cap {"upper", "color", "desc"}}
    \cup {Special("cfg", "", i, "retire", t) : i \in 1..Size(f),
                                               t \in IF "retire" \in kinds THEN Times ELSE {}}
    \cup UNION {{Special("repo", r, i, x, 0) : i \in DOMAIN s[r],
                                               x \in kinds \cap {"upper", "color", "desc"}}
                : r \in DOMAIN s}
    \cup {Special("clock", "", 0, "clock", t) : t \in IF "clock" \in kinds
                                                     THEN Times \ {MaxTime} ELSE {}}

RECURSIVE UpTo(_, _)
UpTo(S, k) ==
    IF k = 0 THEN {{}}
    ELSE LET prev == UpTo(S, k - 1)
         IN prev \cup {p \cup {x} : p \in prev, x \in S}

\* One DeleteAfter for a label, one reading for the clock
Consistent(sp) ==
    \A x, y \in sp : (x.at = y.at /\ x.i = y.i /\ x.f = y.f /\ x.repo = y.repo) => x = y

ClockOf(sp) ==
    LET c == {x.t : x \in {y \in sp : y.at = "clock"}}
    IN IF c = {} THEN MaxTime ELSE CHOOSE t \in c : TRUE

AllKinds == {"upper", "color", "desc", "retire", "clock"}

\* config, ghLabels and now are an input of size at most b whose
\* configuration is one of forests changed by specials of the kinds given
Inputs(forests, kinds, b) ==
    \E f \in {x \in forests : Size(x) <= b} :
    \E s \in PlainSnapshots(b - Size(f)) :
    \E sp \in {x \in UpTo(Specials(f, s, kinds), b - Size(f) - SnapshotSize(s)) : Consistent(x)} :
        /\ config = [Labels |-> DecorateForest(f, 0, sp)]
        /\ ghLabels = [r \in DOMAIN s |-> DecorateList(r, s[r], sp)]
        /\ now = ClockOf(sp)

\* The configurations LoadConfig lets through
ValidForests ==
    {f \in UNION {PlainForests(n) : n \in 0..Cardinality(Keys)} :
        ConfigValidate([Labels |-> f]) = Nil}

\* The rest of the state when SyncOrg has listed the labels of the server
\* LoadLabels has nothing in its channels
NotListing ==
    /\ repoChan = <<>>
    /\ listing = {}
    /\ labelsChan = EmptyMap
    /\ listErrs = 0
    /\ listCalls = EmptyMap

Loaded ==
    /\ NotListing
    /\ confirm = FALSE
    /\ ghIssues = [r \in DOMAIN ghLabels |-> <<>>]
    /\ currLabels = ghLabels
    /\ classified = Nil
    /\ updates = Nil
    /\ syncErr = Nil
    /\ updateChan = <<>>
    /\ inflight = {}
    /\ errChan = 0
    /\ pc = "loaded"
    /\ round = 1
    /\ lastApplied = FALSE
    /\ before = Nil
    /\ calls = <<>>
    /\ faults = 0
    /\ lastSync = Nil

\* SyncLabels on the inputs main hands it
InitSync == Inputs(ValidForests, AllKinds, MaxSize) /\ Loaded

NextSync == SyncLabels

SpecSync == InitSync /\ [][NextSync]_vars

\* SyncLabels on any configuration, validated or not
AnyForests == UNION {PlainForests(n) : n \in 0..MaxSize}

InitValidate == Inputs(AnyForests, {"upper"}, MaxSize) /\ Loaded

SpecValidate == InitValidate /\ [][NextSync]_vars

\* The lists of at most MaxIssues open issues of a repository with the labels
\* given, every issue carrying some of them
IssueListsUpTo(labels, k) ==
    LET names == {labels[i].Name : i \in DOMAIN labels}
    IN UNION {[1..n -> (SUBSET names) \ {{}}] : n \in 0..k}

IssueLists(labels) == IssueListsUpTo(labels, MaxIssues)

\* The rest of the state when SyncOrg is called
Started ==
    /\ NotListing
    /\ currLabels = EmptyMap
    /\ classified = Nil
    /\ updates = Nil
    /\ syncErr = Nil
    /\ updateChan = <<>>
    /\ inflight = {}
    /\ errChan = 0
    /\ pc = "start"
    /\ round = 1
    /\ lastApplied = FALSE
    /\ before = Nil
    /\ calls = <<>>
    /\ faults = 0
    /\ lastSync = Nil

\* The runs of SyncOrg, with and without --confirm
Init ==
    /\ Inputs(ValidForests, AllKinds, MaxFlowSize)
    /\ confirm \in BOOLEAN
    /\ ghIssues \in [DOMAIN ghLabels -> UNION {IssueLists(ghLabels[r]) : r \in DOMAIN ghLabels}]
    /\ \A r \in DOMAIN ghLabels : ghIssues[r] \in IssueLists(ghLabels[r])
    /\ Started

Next ==
    \/ LoadLabels
    \/ SyncLabels
    \/ SyncFailed
    \/ DryRun
    \/ DoUpdatesSend
    \/ Receive
    \/ RunMissing
    \/ RunChangeOrRename
    \/ RunDead
    \/ MigrateFind
    \/ MigrateDelete
    \/ MigrateAdd
    \/ MigrateRemove
    \/ DoUpdatesReturn
    \/ NextRun

Spec == Init /\ [][Next]_vars

\* One run of SyncOrg with --confirm, the repositories having up to
\* MaxApplyIssues open issues
InitApply ==
    /\ Inputs(ValidForests, AllKinds, MaxFlowSize)
    /\ confirm = TRUE
    /\ ghIssues \in [DOMAIN ghLabels ->
                         UNION {IssueListsUpTo(ghLabels[r], MaxApplyIssues) : r \in DOMAIN ghLabels}]
    /\ \A r \in DOMAIN ghLabels : ghIssues[r] \in IssueListsUpTo(ghLabels[r], MaxApplyIssues)
    /\ Started

NextApply ==
    \/ LoadLabels
    \/ SyncLabels
    \/ SyncFailed
    \/ DoUpdatesSend
    \/ Receive
    \/ RunMissing
    \/ RunChangeOrRename
    \/ RunDead
    \/ MigrateFind
    \/ MigrateDelete
    \/ MigrateAdd
    \/ MigrateRemove
    \/ DoUpdatesReturn

SpecApply == InitApply /\ [][NextApply]_vars

\* DoUpdates called with any batch of at most MaxBatch updates of one
\* repository, the reasons of the switch and one that is none of them
MaxBatch == 2

BatchUpdates ==
    LET a == PlainLabel("a", <<>>)
        c == PlainLabel("c", <<>>)
    IN {create("r1", c), kill("r1", a), rename("r1", a, c), move("r1", a, c),
        [repo |-> "r1", Why |-> "unknown", Wanted |-> Nil, Current |-> Nil]}

BatchLists ==
    {<<>>, <<GithubLabel("a", "d1", "c1")>>, <<GithubLabel("c", "d1", "c1")>>,
     <<GithubLabel("a", "d1", "c1"), GithubLabel("c", "d1", "c1")>>}

InitBatch ==
    /\ config = [Labels |-> <<>>]
    /\ now = 1
    /\ confirm = TRUE
    /\ \E l \in BatchLists :
          /\ ghLabels = [r \in {"r1"} |-> l]
          /\ \E i \in IssueListsUpTo(l, MaxApplyIssues) : ghIssues = [r \in {"r1"} |-> i]
    /\ NotListing
    /\ currLabels = ghLabels
    /\ classified = Nil
    /\ \E batch \in UNION {[1..n -> BatchUpdates] : n \in 1..MaxBatch} :
          updates = Ptr([r \in {"r1"} |-> batch])
    /\ syncErr = Nil
    /\ updateChan = <<>>
    /\ inflight = {}
    /\ errChan = 0
    /\ pc = "synced"
    /\ round = 1
    /\ lastApplied = FALSE
    /\ before = Nil
    /\ calls = <<>>
    /\ faults = 0
    /\ lastSync = Nil

NextBatch ==
    \/ DoUpdatesSend
    \/ Receive
    \/ RunMissing
    \/ RunChangeOrRename
    \/ RunDead
    \/ MigrateFind
    \/ MigrateDelete
    \/ MigrateAdd
    \/ MigrateRemove
    \/ RunDefault
    \/ DoUpdatesReturn

\* Every call returns and every goroutine that can take a step takes it
SpecBatch == InitBatch /\ [][NextBatch]_vars /\ WF_vars(NextBatch)

----------------------------------------------------------------------------
(* The vocabulary of the properties *)

\* The labels of a label list, each with the top-level label of its chain,
\* its depth and its path (the indices that lead to it)
RECURSIVE TreeNodes(_, _, _, _)
TreeNodes(labels, top, depth, path) ==
    UNION {
        LET l == labels[i]
            t == IF top = Nil THEN Ptr(l) ELSE top
            p == Append(path, i)
        IN {[label |-> l, top |-> t[1], depth |-> depth, path |-> p]}
           \cup TreeNodes(l.Previously, t, depth + 1, p)
        : i \in DOMAIN labels}

ConfigNodes == TreeNodes(config.Labels, Nil, 0, <<>>)

Lower(n) == ToLower(n.label.Name)

\* Two labels of the configuration have the same lowercase name
DuplicateNames == \E m, n \in ConfigNodes : m.path # n.path /\ Lower(m) = Lower(n)

\* The classification of section 4.1
Retired(n) == n.label.DeleteAfter # Nil /\ now > n.label.DeleteAfter[1]
RequiredNodes == {n \in ConfigNodes : n.depth = 0 /\ n.label.DeleteAfter = Nil}
DeadNodes == {n \in ConfigNodes : Retired(n)}
ArchaicNodes == {n \in ConfigNodes : n.depth > 0 /\ ~Retired(n)}

\* The labels a repository lists under a name, whatever the case
ObservedAs(r, name) ==
    {currLabels[r][i] : i \in {j \in DOMAIN currLabels[r] :
                                  ToLower(currLabels[r][j].Name) = ToLower(name)}}

Present(r, name) == ObservedAs(r, name) # {}

\* No two labels of the repository are equal under case-folding
ValidRepo(r) ==
    \A i, j \in DOMAIN currLabels[r] :
        ToLower(currLabels[r][i].Name) = ToLower(currLabels[r][j].Name) => i = j

\* The label l of an action is the label g the repository lists
Shows(l, g) == l.Name = g.Name /\ l.Color = g.Color /\ l.Description = g.Description

\* The action list SyncLabels returned for a repository
Acts(r) == IF updates # Nil /\ r \in DOMAIN updates[1] THEN updates[1][r] ELSE <<>>

\* The places of the actions of a kind in that list
Idx(r, why) == {k \in DOMAIN Acts(r) : Acts(r)[k].Why = why}

Synced == pc = "synced"

----------------------------------------------------------------------------
(* C1 *)

\* C1: when two labels of the configuration, at any depth and in any chains,
\* have the same lowercase name, SyncLabels returns an error and nil
\* RepoUpdates whatever the snapshot; when all lowercase names differ, the
\* validation of the configuration reports no error and SyncLabels returns
\* updates and no invalid-config error.
C1_DuplicateNamesRejected ==
    Synced =>
        /\ DuplicateNames => (syncErr # Nil /\ updates = Nil)
        /\ ~DuplicateNames =>
              /\ ConfigValidate(config) = Nil
              /\ updates # Nil
              /\ syncErr # Nil => "invalidConfig" \notin DOMAIN syncErr[1]

\* C1 witness: SyncLabels ran on a configuration where two previous names of
\* two different chains differ in case only, and on a snapshot with a
\* repository.
C1_Witness ==
    /\ Synced
    /\ DOMAIN currLabels # {}
    /\ \E m, n \in ConfigNodes :
          /\ m.depth > 0 /\ n.depth > 0
          /\ m.path[1] # n.path[1]
          /\ Lower(m) = Lower(n)
          /\ m.label.Name # n.label.Name

----------------------------------------------------------------------------
(* C3 *)

\* The actions for the observed label g are one rename to the label T, no
\* migrate, and T is not created.
RenamedTo(r, g, T) ==
    /\ Cardinality({k \in Idx(r, "rename") : Acts(r)[k].Current[1].Name = g.Name}) = 1
    /\ \A k \in Idx(r, "rename") :
          Acts(r)[k].Current[1].Name = g.Name => Acts(r)[k].Wanted[1].Name = T.Name
    /\ \A k \in Idx(r, "migrate") : Acts(r)[k].Current[1].Name # g.Name
    /\ \A k \in Idx(r, "missing") : ToLower(Acts(r)[k].Wanted[1].Name) # ToLower(T.Name)

\* No other archaic label of the chain of n is listed by the repository
Alone(r, n) ==
    \A m \in ArchaicNodes :
        (m.path # n.path /\ m.path[1] = n.path[1]) => ~Present(r, m.label.Name)

\* C3 as stated: for every archaic label A a repository lists while it does
\* not list A's top-level ancestor T, SyncLabels yields exactly one rename of
\* the observed A to T's name, no migrate of A and no missing action for T.
C3_Original ==
    Synced =>
        \A r \in DOMAIN currLabels : \A n \in ArchaicNodes :
            (Present(r, n.label.Name) /\ ~Present(r, n.top.Name)) =>
                \A g \in ObservedAs(r, n.label.Name) : RenamedTo(r, g, n.top)

\* C3 amended: the same, for a repository without duplicate names that lists
\* no other archaic label of the same chain.
C3_RenameWhenTargetAbsent ==
    Synced =>
        \A r \in DOMAIN currLabels : \A n \in ArchaicNodes :
            (/\ ValidRepo(r)
             /\ Alone(r, n)
             /\ Present(r, n.label.Name)
             /\ ~Present(r, n.top.Name)) =>
                \A g \in ObservedAs(r, n.label.Name) : RenamedTo(r, g, n.top)

\* C3 witness: a repository lists, in another case, a previous name of a
\* required label it does not list, and SyncLabels ran.
C3_Witness ==
    /\ Synced
    /\ \E r \in DOMAIN currLabels : \E n \in ArchaicNodes :
          /\ ValidRepo(r) /\ Alone(r, n)
          /\ ~Present(r, n.top.Name)
          /\ n.top.DeleteAfter = Nil
          /\ \E g \in ObservedAs(r, n.label.Name) : g.Name # n.label.Name

----------------------------------------------------------------------------
(* C4 *)

\* The actions for the observed label g are one migrate to the label T and no
\* rename.
MigratedTo(r, g, T) ==
    /\ Cardinality({k \in Idx(r, "migrate") :
            Shows(Acts(r)[k].Current[1], g) /\ Acts(r)[k].Wanted[1].Name = T.Name}) = 1
    /\ Cardinality({k \in Idx(r, "migrate") : Shows(Acts(r)[k].Current[1], g)}) = 1
    /\ \A k \in Idx(r, "rename") : ~Shows(Acts(r)[k].Current[1], g)

\* C4 as stated: for every archaic label A a repository lists together with
\* A's top-level ancestor T, SyncLabels yields exactly one migrate of the
\* observed A to T's name and no rename of A.
C4_Original ==
    Synced =>
        \A r \in DOMAIN currLabels : \A n \in ArchaicNodes :
            (Present(r, n.label.Name) /\ Present(r, n.top.Name)) =>
                \A g \in ObservedAs(r, n.label.Name) : MigratedTo(r, g, n.top)

\* C4 amended: the same, for a repository without duplicate names.
C4_MigrateWhenTargetPresent ==
    Synced =>
        \A r \in DOMAIN currLabels : \A n \in ArchaicNodes :
            (ValidRepo(r) /\ Present(r, n.label.Name) /\ Present(r, n.top.Name)) =>
                \A g \in ObservedAs(r, n.label.Name) : MigratedTo(r, g, n.top)

\* C4 witness: a repository without duplicate names lists the current name of
\* a label and, in another case than the configuration, a previous name of it,
\* and SyncLabels ran.
C4_Witness ==
    /\ Synced
    /\ \E r \in DOMAIN currLabels : \E n \in ArchaicNodes :
          /\ ValidRepo(r)
          /\ \E g \in ObservedAs(r, n.label.Name) : g.Name # n.label.Name
          /\ Present(r, n.top.Name)

----------------------------------------------------------------------------
(* C5 *)

\* The repository's list has exactly one missing action for the required
\* label R.
CreatedOnce(r, R) ==
    Cardinality({k \in Idx(r, "missing") : Acts(r)[k].Wanted[1] = R.label}) = 1

\* The required label R is the target of a rename of the repository's list
RenameTarget(r, R) ==
    \E k \in Idx(r, "rename") : ToLower(Acts(r)[k].Wanted[1].Name) = Lower(R)

\* The list of a repository without labels: one missing action for each
\* required label and nothing else
OnlyCreations(r) ==
    /\ Len(Acts(r)) = Cardinality(RequiredNodes)
    /\ \A k \in DOMAIN Acts(r) : Acts(r)[k].Why = "missing"
    /\ \A R \in RequiredNodes : CreatedOnce(r, R)

\* C5 as stated: for every required label R a repository does not list, and
\* that is not the target of a rename of the same repository, SyncLabels
\* yields exactly one missing action with wanted = R; the list of a repository
\* without labels is one missing action per required label and nothing else.
C5_Original ==
    Synced =>
        \A r \in DOMAIN currLabels :
            /\ \A R \in RequiredNodes :
                  (~Present(r, R.label.Name) /\ ~RenameTarget(r, R)) => CreatedOnce(r, R)
            /\ currLabels[r] = <<>> => OnlyCreations(r)

\* C5 amended: the same, for a repository without duplicate names.
C5_MissingWhenAbsent ==
    Synced =>
        \A r \in DOMAIN currLabels :
            ValidRepo(r) =>
                /\ \A R \in RequiredNodes :
                      (~Present(r, R.label.Name) /\ ~RenameTarget(r, R)) => CreatedOnce(r, R)
                /\ currLabels[r] = <<>> => OnlyCreations(r)

\* C5 witness: SyncLabels ran on a repository without labels and on a
\* repository that lists one required label and not another, the
\* configuration having a label that is not required.
C5_Witness ==
    /\ Synced
    /\ Cardinality(RequiredNodes) >= 2
    /\ \E r \in DOMAIN currLabels : currLabels[r] = <<>>
    /\ \E r \in DOMAIN currLabels : \E R, Q \in RequiredNodes :
          ValidRepo(r) /\ Present(r, R.label.Name) /\ ~Present(r, Q.label.Name)

----------------------------------------------------------------------------
(* C6 *)

\* The actions for the required label R that the repository lists as C
RequiredPresent(r, R, C) ==
    IF C.Name # R.label.Name
    THEN /\ Cardinality({k \in Idx(r, "rename") :
                 Shows(Acts(r)[k].Current[1], C) /\ Acts(r)[k].Wanted[1] = R.label}) = 1
         /\ Cardinality({k \in Idx(r, "rename") :
                 Acts(r)[k].Wanted[1].Name = R.label.Name}) = 1
         /\ \A k \in Idx(r, "change") : Acts(r)[k].Wanted[1].Name # R.label.Name
    ELSE IF C.Color # R.label.Color \/ C.Description # R.label.Description
    THEN /\ Cardinality({k \in Idx(r, "change") : Acts(r)[k].Wanted[1] = R.label}) = 1
         /\ Cardinality({k \in Idx(r, "change") :
                 Acts(r)[k].Wanted[1].Name = R.label.Name}) = 1
    ELSE \A k \in DOMAIN Acts(r) :
            /\ Acts(r)[k].Why \in {"missing", "rename", "change"}
                  => Acts(r)[k].Wanted[1].Name # R.label.Name
            /\ Acts(r)[k].Why = "dead" => ~Shows(Acts(r)[k].Current[1], C)

\* C6 as stated: for every required label R a repository lists as C: one
\* rename of C to R and no change when the names differ; else one change with
\* wanted = R when the colors or the descriptions differ; else no action.
C6_Original ==
    Synced =>
        \A r \in DOMAIN currLabels : \A R \in RequiredNodes :
            \A C \in ObservedAs(r, R.label.Name) : RequiredPresent(r, R, C)

\* C6 amended: the same, for a repository without duplicate names.
C6_RequiredPresent ==
    Synced =>
        \A r \in DOMAIN currLabels : \A R \in RequiredNodes :
            ValidRepo(r) =>
                \A C \in ObservedAs(r, R.label.Name) : RequiredPresent(r, R, C)

\* C6 witness: a repository without duplicate names lists a required label
\* under a name in another case and with another color, and SyncLabels ran.
C6_Witness ==
    /\ Synced
    /\ \E r \in DOMAIN currLabels : \E R \in RequiredNodes :
          /\ ValidRepo(r)
          /\ \E C \in ObservedAs(r, R.label.Name) :
                C.Name # R.label.Name /\ C.Color # R.label.Color

----------------------------------------------------------------------------
(* C7 *)

DeadName(name) == \E n \in DeadNodes : Lower(n) = ToLower(name)

\* C7: for a repository without duplicate names, the dead actions are one for
\* each listed label whose lowercase name is dead, with that label as current,
\* and none for any other label.
C7_DeadExactly ==
    Synced =>
        \A r \in DOMAIN currLabels :
            ValidRepo(r) =>
                /\ \A i \in DOMAIN currLabels[r] :
                      Cardinality({k \in Idx(r, "dead") :
                                      Shows(Acts(r)[k].Current[1], currLabels[r][i])})
                        = IF DeadName(currLabels[r][i].Name) THEN 1 ELSE 0
                /\ \A k \in Idx(r, "dead") :
                      \E i \in DOMAIN currLabels[r] :
                          Shows(Acts(r)[k].Current[1], currLabels[r][i])

\* C7 witness: a repository without duplicate names lists, in another case, a
\* label past its DeleteAfter, and a label whose name is not dead, and
\* SyncLabels ran.
C7_Witness ==
    /\ Synced
    /\ \E r \in DOMAIN currLabels : \E n \in ConfigNodes :
          /\ ValidRepo(r)
          /\ Retired(n)
          /\ \E g \in ObservedAs(r, n.label.Name) : g.Name # n.label.Name
          /\ \E i \in DOMAIN currLabels[r] : ~DeadName(currLabels[r][i].Name)

----------------------------------------------------------------------------
(* C8 *)

\* C8: in the list of a repository every migrate action comes after every
\* action of another kind.
C8_MigrateLast ==
    Synced =>
        \A r \in DOMAIN currLabels : \A i, j \in DOMAIN Acts(r) :
            (Acts(r)[i].Why = "migrate" /\ Acts(r)[j].Why # "migrate") => j < i

\* C8 witness: the list of a repository holds a migrate action and a rename.
C8_Witness ==
    /\ Synced
    /\ \E r \in DOMAIN currLabels : Idx(r, "migrate") # {} /\ Idx(r, "rename") # {}

----------------------------------------------------------------------------
(* C9 *)

Reasons == {"missing", "rename", "change", "dead", "migrate"}

WellShaped(a) ==
    /\ a.Why \in Reasons
    /\ a.Why = "missing" => (a.Wanted # Nil /\ a.Current = Nil)
    /\ a.Why = "dead" => (a.Current # Nil /\ a.Wanted = Nil)
    /\ a.Why \in {"rename", "change", "migrate"} => (a.Current # Nil /\ a.Wanted # Nil)

\* C9: every action SyncLabels returns has a reason among missing, rename,
\* change, dead and migrate; a missing action has wanted only, a dead action
\* current only, a rename, a change and a migrate both.
C9_ActionShape ==
    (Synced /\ updates # Nil) =>
        \A r \in DOMAIN updates[1] : \A k \in DOMAIN updates[1][r] :
            WellShaped(updates[1][r][k])

\* C9 witness: SyncLabels returned a dead action and a migrate action for one
\* repository.
C9_Witness ==
    /\ Synced
    /\ \E r \in DOMAIN currLabels : Idx(r, "dead") # {} /\ Idx(r, "migrate") # {}

----------------------------------------------------------------------------
(* C10 *)

\* The lists SyncLabels may return for the repository r when the snapshot
\* holds r alone
AloneLists(r) ==
    LET sets == Classify(config, now)
    IN {LET res == SyncLabelsResult(config, (r :> currLabels[r]), now, <<r>>,
                                    (r :> ao), (r :> ro)).updates[1]
        IN IF r \in DOMAIN res THEN res[r] ELSE <<>>
        : ao \in Orders(DOMAIN sets.archaic), ro \in Orders(DOMAIN sets.required)}

\* C10: with a valid configuration, a repository that lists two names equal
\* under case-folding gets no action at all, every other repository gets the
\* list it gets when it is the only repository, and the error returned is nil
\* exactly when no repository lists such a duplicate.
C10_InvalidRepoSkipped ==
    (Synced /\ ~DuplicateNames) =>
        /\ \A r \in DOMAIN currLabels : ~ValidRepo(r) => Acts(r) = <<>>
        /\ \A r \in DOMAIN currLabels : ValidRepo(r) => Acts(r) \in AloneLists(r)
        /\ syncErr = Nil <=> (\A r \in DOMAIN currLabels : ValidRepo(r))

\* C10 witness: SyncLabels ran on a repository that lists a name twice, in two
\* cases, and on another repository that gets actions.
C10_Witness ==
    /\ Synced
    /\ \E r, q \in DOMAIN currLabels :
          /\ \E i, j \in DOMAIN currLabels[r] :
                /\ currLabels[r][i].Name # currLabels[r][j].Name
                /\ ToLower(currLabels[r][i].Name) = ToLower(currLabels[r][j].Name)
          /\ ValidRepo(q)
          /\ Acts(q) # <<>>

----------------------------------------------------------------------------
(* C2 *)

\* C2: when a run has applied its actions (DoUpdates returned no error) and
\* the next run calls SyncLabels, the action list of every repository is
\* empty.
C2_Fixpoint ==
    (round > 1 /\ lastApplied /\ Synced) =>
        \A r \in DOMAIN currLabels : Acts(r) = <<>>

----------------------------------------------------------------------------
(* C11 *)

\* The map m holds the label of the node n under its lowercase name
Holds(m, n) == Lower(n) \in DOMAIN m /\ m[Lower(n)] = n.label

\* C11: ClassifyLabels puts every top-level label without DeleteAfter into
\* required and every label, at any depth, whose DeleteAfter is before now
\* into dead; a label whose DeleteAfter is now or later is not in dead, and
\* required holds no label with a DeleteAfter and no label that is not at the
\* top level.
C11_RequiredAndDead ==
    (Synced /\ classified # Nil) =>
        LET sets == classified[1]
        IN /\ \A n \in ConfigNodes :
                 /\ (n.depth = 0 /\ n.label.DeleteAfter = Nil) => Holds(sets.required, n)
                 /\ (n.label.DeleteAfter # Nil /\ n.label.DeleteAfter[1] < now)
                        => Holds(sets.dead, n)
                 /\ (n.label.DeleteAfter # Nil /\ n.label.DeleteAfter[1] >= now)
                        => ~Holds(sets.dead, n)
                 /\ (n.label.DeleteAfter # Nil \/ n.depth > 0) => ~Holds(sets.required, n)
           /\ \A k \in DOMAIN sets.required :
                 \E n \in ConfigNodes :
                    n.depth = 0 /\ n.label.DeleteAfter = Nil /\ Holds(sets.required, n)
                    /\ Lower(n) = k

\* C11 witness: SyncLabels classified a configuration with a top-level label
\* without DeleteAfter, a previous name whose DeleteAfter is before now and a
\* top-level label whose DeleteAfter is now.
C11_Witness ==
    /\ Synced
    /\ classified # Nil
    /\ \E n, m, q \in ConfigNodes :
          /\ n.depth = 0 /\ n.label.DeleteAfter = Nil
          /\ m.depth > 0 /\ m.label.DeleteAfter # Nil /\ m.label.DeleteAfter[1] < now
          /\ q.depth = 0 /\ q.label.DeleteAfter = Ptr(now)

----------------------------------------------------------------------------
(* C12 *)

\* C12: every label that is not at the top level and whose DeleteAfter is
\* unset or not before now is in archaic, and the parent of an archaic label,
\* at any depth, is the top-level label of its chain.
C12_ArchaicParent ==
    (Synced /\ classified # Nil) =>
        LET sets == classified[1]
        IN /\ \A n \in ConfigNodes :
                 (n.depth > 0 /\ ~Retired(n)) =>
                     /\ Lower(n) \in DOMAIN sets.archaic
                     /\ sets.archaic[Lower(n)] = [n.label EXCEPT !.parent = Ptr(n.top)]
           /\ \A k \in DOMAIN sets.archaic :
                 \E t \in ConfigNodes : t.depth = 0 /\ sets.archaic[k].parent = Ptr(t.label)

\* C12 witness: SyncLabels classified a configuration with a label renamed
\* twice, its two previous names not retired.
C12_Witness ==
    /\ Synced
    /\ classified # Nil
    /\ \E n, m \in ConfigNodes :
          /\ n.depth = 2 /\ ~Retired(n)
          /\ m.depth = 1 /\ ~Retired(m) /\ m.top = n.top
          /\ n.label.DeleteAfter # Nil

----------------------------------------------------------------------------
(* One run of SyncOrg with --confirm, LoadLabels worker by worker *)

InitOrg ==
    /\ Inputs(ValidForests, AllKinds, MaxFlowSize)
    /\ confirm = TRUE
    /\ ghIssues \in [DOMAIN ghLabels -> UNION {IssueLists(ghLabels[r]) : r \in DOMAIN ghLabels}]
    /\ \A r \in DOMAIN ghLabels : ghIssues[r] \in IssueLists(ghLabels[r])
    /\ Started

NextOrg ==
    \/ LoadRepos
    \/ ListReceive
    \/ GetRepoLabels
    \/ LoadLabelsReturn
    \/ SyncLabels
    \/ SyncFailed
    \/ DoUpdatesSend
    \/ Receive
    \/ RunMissing
    \/ RunChangeOrRename
    \/ RunDead
    \/ MigrateFind
    \/ MigrateDelete
    \/ MigrateAdd
    \/ MigrateRemove
    \/ DoUpdatesReturn

SpecOrg == InitOrg /\ [][NextOrg]_vars

----------------------------------------------------------------------------
(* SyncOrg run with --confirm again and again *)

\* A valid config, and one repository, whose labels are valid and not none
InitConverge ==
    /\ Inputs(ValidForests, AllKinds, MaxFlowSize)
    /\ Cardinality(DOMAIN ghLabels) = 1
    /\ \A r \in DOMAIN ghLabels :
          /\ ghLabels[r] # <<>>
          /\ validate(ConvertLabels(ghLabels[r]), <<>>, EmptyMap).err = Nil
    /\ confirm = TRUE
    /\ ghIssues \in [DOMAIN ghLabels -> UNION {IssueLists(ghLabels[r]) : r \in DOMAIN ghLabels}]
    /\ \A r \in DOMAIN ghLabels : ghIssues[r] \in IssueLists(ghLabels[r])
    /\ Started

\* The steps of a run but the one of SyncLabels
RunsOn ==
    \/ LoadLabels
    \/ DoUpdatesSend
    \/ Receive
    \/ RunMissing
    \/ RunChangeOrRename
    \/ RunDead
    \/ MigrateFind
    \/ MigrateDelete
    \/ MigrateAdd
    \/ MigrateRemove
    \/ DoUpdatesReturn
    \/ Abort
    \/ Rerun

NextConverge == SyncLabels \/ RunsOn

\* The step of SyncLabels as pc shows it: the one step from "loaded", possible
\* whenever pc is "loaded"
SyncLabelsStep == pc = "loaded" /\ pc' = "synced"

\* Every run goes on to its end, SyncLabels returning and the workers and the
\* calls they make not stopping, and is followed by another; the calls that
\* fail though the server would not refuse them are MaxFailures at most
SpecConverge ==
    InitConverge /\ [][NextConverge]_vars /\ WF_pc(SyncLabelsStep) /\ WF_vars(RunsOn)

----------------------------------------------------------------------------
(* SyncLabels called twice with the same arguments *)

\* The RepoUpdates returned are kept, and SyncLabels is called once more with
\* the config, the time and the labels of the first call
SyncAgain ==
    /\ pc = "synced"
    /\ lastSync = Nil
    /\ lastSync' = Ptr(updates)
    /\ classified' = Nil /\ updates' = Nil /\ syncErr' = Nil
    /\ pc' = "loaded"
    /\ UNCHANGED <<fetch, config, now, confirm, server, currLabels, pool, round, lastApplied, trace>>

NextTwice == SyncLabels \/ SyncAgain

SpecTwice == InitSync /\ [][NextTwice]_vars

----------------------------------------------------------------------------
(* The vocabulary of the properties of DoUpdates *)

\* DoUpdates has returned
Returned == before # Nil /\ pc \in {"updated", "failed"}

\* The repoUpdates DoUpdates was called with, by their numbers
Queue == before[1].queue

\* No worker of DoUpdates has a step left
Over == Returned \/ Stuck

\* The numbers of the repoUpdates with one of the reasons given
Items(whys) == {n \in DOMAIN Queue : Queue[n].update.Why \in whys}

\* The places of the calls named in the calls made for the repoUpdate n
Places(n, name) == {k \in DOMAIN calls[n] : calls[n][k].call = name}

\* The call with which the switch of DoUpdates starts on the update u
Entry(u) ==
    CASE u.Why = "missing" ->
            Call("AddRepoLabel", <<u.Wanted[1].Name, u.Wanted[1].Description, u.Wanted[1].Color>>)
      [] u.Why \in {"rename", "change"} ->
            Call("UpdateRepoLabel", <<u.Current[1].Name, u.Wanted[1].Name,
                                      u.Wanted[1].Description, u.Wanted[1].Color>>)
      [] u.Why = "dead" -> Call("DeleteRepoLabel", <<u.Current[1].Name>>)
      [] u.Why = "migrate" -> Call("FindIssues", <<u.Current[1].Name, u.Wanted[1].Name>>)

\* The k-th call made for the repoUpdate n is the call c
IsCall(n, k, c) ==
    /\ k \in DOMAIN calls[n]
    /\ calls[n][k].call = c.call
    /\ calls[n][k].args = c.args

----------------------------------------------------------------------------
(* C13 *)

\* C13: when DoUpdates has returned, the calls made for a missing action are
\* the one call AddRepoLabel(wanted's name, description, color), for a rename
\* or a change the one call UpdateRepoLabel(current's name, wanted's name,
\* description, color), for a dead action the one call
\* DeleteRepoLabel(current's name).
C13_OneCallPerAction ==
    Returned =>
        \A n \in Items({"missing", "rename", "change", "dead"}) :
            Len(calls[n]) = 1 /\ IsCall(n, 1, Entry(Queue[n].update))

\* C13 witness: DoUpdates has returned from a missing action and a rename to
\* another name.
C13_Witness ==
    /\ Returned
    /\ Items({"missing"}) # {}
    /\ \E n \in Items({"rename"}) :
          ToLower(Queue[n].update.Current[1].Name) # ToLower(Queue[n].update.Wanted[1].Name)

----------------------------------------------------------------------------
(* C14 *)

\* C14: when DoUpdates has returned, the calls made for a migrate action whose
\* FindIssues gave no issue are FindIssues and DeleteRepoLabel(current's name),
\* and no other.
C14_MigrateDeletesWhenNoIssue ==
    Returned =>
        \A n \in Items({"migrate"}) :
            (calls[n] # <<>> /\ calls[n][1].result = <<>>) =>
                /\ Len(calls[n]) = 2
                /\ IsCall(n, 1, Entry(Queue[n].update))
                /\ IsCall(n, 2, Call("DeleteRepoLabel", <<Queue[n].update.Current[1].Name>>))

\* C14 witness: DoUpdates has returned from a migrate action whose FindIssues
\* gave no issue without an error, an open issue carrying the two labels.
C14_Witness ==
    /\ Returned
    /\ \E n \in Items({"migrate"}) :
          /\ calls[n] # <<>> /\ calls[n][1].ok /\ calls[n][1].result = <<>>
          /\ before[1].issues[Queue[n].repo] # <<>>

----------------------------------------------------------------------------
(* C15 *)

\* The issues FindIssues gave to the migrate action n
Found(n) == calls[n][1].result

\* The repoUpdates of a migrate action whose FindIssues gave issues
Migrating == {n \in Items({"migrate"}) : calls[n] # <<>> /\ Found(n) # <<>>}

\* The places of the calls named, on the issue i, among the calls of n
On(n, name, i) == {k \in Places(n, name) : calls[n][k].args[1] = i}

\* The k-th call of n is AddLabel(i, wanted's name)
IsAdd(n, k, i) == IsCall(n, k, Call("AddLabel", <<i, Queue[n].update.Wanted[1].Name>>))

\* The k-th call of n is RemoveLabel(i, current's name)
IsRemove(n, k, i) == IsCall(n, k, Call("RemoveLabel", <<i, Queue[n].update.Current[1].Name>>))

\* The issues FindIssues gave to n, as a set
FoundSet(n) == {Found(n)[j] : j \in DOMAIN Found(n)}

\* The statement of C15 as it stands: every issue found gets AddLabel and
\* then RemoveLabel, and the label is not deleted.
C15_Original ==
    Returned =>
        \A n \in Migrating :
            /\ \A i \in FoundSet(n) :
                  /\ \E a \in On(n, "AddLabel", i) : \E r \in On(n, "RemoveLabel", i) :
                        a < r /\ IsAdd(n, a, i) /\ IsRemove(n, r, i)
                  /\ \A r \in On(n, "RemoveLabel", i) : \E a \in On(n, "AddLabel", i) : a < r
            /\ Places(n, "DeleteRepoLabel") = {}

\* C15: when DoUpdates has returned from a migrate action whose FindIssues
\* gave issues, every issue found has got one AddLabel(wanted's name); where
\* that call returned no error it is followed at once by the one
\* RemoveLabel(current's name) of the issue; no RemoveLabel comes before the
\* AddLabel of its issue, and DeleteRepoLabel is not called.
C15_AddThenRemove ==
    Returned =>
        \A n \in Migrating :
            /\ \A i \in FoundSet(n) :
                  /\ Cardinality(On(n, "AddLabel", i)) = 1
                  /\ \A a \in On(n, "AddLabel", i) :
                        /\ IsAdd(n, a, i)
                        /\ calls[n][a].ok => (On(n, "RemoveLabel", i) = {a + 1} /\ IsRemove(n, a + 1, i))
                  /\ \A r \in On(n, "RemoveLabel", i) : \E a \in On(n, "AddLabel", i) : a < r
            /\ Places(n, "DeleteRepoLabel") = {}

\* C15 witness: DoUpdates has returned from a migrate action with two issues
\* found, both labelled anew.
C15_Witness ==
    /\ Returned
    /\ \E n \in Migrating :
          /\ Len(Found(n)) = 2
          /\ \A i \in FoundSet(n) :
                \E r \in On(n, "RemoveLabel", i) : calls[n][r].ok

----------------------------------------------------------------------------
(* C16 *)

\* The issues that come after the j-th in what FindIssues gave to n
Later(n, j) == {Found(n)[m] : m \in {m \in DOMAIN Found(n) : m > j}}

\* The error of the k-th call of n has gone into errChan: the worker is not
\* blocked sending it
Recorded(n, k) ==
    /\ ~calls[n][k].ok
    /\ ~(k = Len(calls[n]) /\ \E w \in inflight : w.item.n = n /\ w.at = "blocked")

\* C16: when no worker of DoUpdates has a step left, a RemoveLabel on an issue
\* comes after an AddLabel on the same issue that returned no error; after an
\* AddLabel that returned an error the error is in errChan, the issue gets no
\* RemoveLabel, and every later issue found gets its AddLabel, and its
\* RemoveLabel if that AddLabel returned no error.
C16_RemoveOnlyAfterAdd ==
    Over =>
        \A n \in Migrating :
              \A j \in DOMAIN Found(n) :
                 LET i == Found(n)[j]
                 IN /\ \A r \in On(n, "RemoveLabel", i) :
                          \E a \in On(n, "AddLabel", i) : a < r /\ calls[n][a].ok
                    /\ \A a \in On(n, "AddLabel", i) :
                          ~calls[n][a].ok =>
                              /\ Recorded(n, a)
                              /\ On(n, "RemoveLabel", i) = {}
                              /\ \A l \in Later(n, j) :
                                    /\ On(n, "AddLabel", l) # {}
                                    /\ \A b \in On(n, "AddLabel", l) :
                                          calls[n][b].ok <=> On(n, "RemoveLabel", l) # {}

----------------------------------------------------------------------------
(* C17 *)

\* The calls that returned an error, by repoUpdate and place
Failed == UNION {{<<n, k>> : k \in {k \in DOMAIN calls[n] : ~calls[n][k].ok}} : n \in DOMAIN calls}

\* C17: DoUpdates does not get stuck, and when it has returned the call its
\* switch starts with has been made once for every repoUpdate, the error
\* returned is non-nil exactly when a call returned an error, and errChan
\* holds the errors of the calls that returned one and no other.
C17_EveryActionOnce ==
    /\ ~Stuck
    /\ Returned =>
          /\ \A n \in DOMAIN Queue :
                /\ IsCall(n, 1, Entry(Queue[n].update))
                /\ {k \in Places(n, calls[n][1].call) : calls[n][k].args = calls[n][1].args} = {1}
          /\ pc = "failed" <=> Failed # {}
          /\ errChan = Cardinality(Failed)

----------------------------------------------------------------------------
(* C18 *)

\* The call c made for the repoUpdate n on the repository repo, in the state
\* st of the server, no call failing but those the server refuses
Tell(st, n, repo, c) ==
    LET res == Answer([labels |-> st.labels[repo], issues |-> st.issues[repo]], c)
    IN IF res.ok
       THEN [st EXCEPT !.labels[repo] = res.srv.labels, !.issues[repo] = res.srv.issues,
                       !.ok = TRUE]
       ELSE [st EXCEPT !.failed = @ \cup {<<n, c.call>>}, !.ok = FALSE]

\* The loop over the issues of a migrate action, run to its end
RECURSIVE Relabel(_, _, _)
Relabel(st, item, issues) ==
    IF issues = <<>> THEN st
    ELSE LET u == item.update
             added == Tell(st, item.n, item.repo, Call("AddLabel", <<Head(issues), u.Wanted[1].Name>>))
             done == IF added.ok
                     THEN Tell(added, item.n, item.repo,
                               Call("RemoveLabel", <<Head(issues), u.Current[1].Name>>))
                     ELSE added
         IN Relabel(done, item, Tail(issues))

\* The repoUpdate item run to its end with no other running
Single(st, item) ==
    LET u == item.update
    IN IF u.Why = "migrate"
       THEN LET found == FindIssues([labels |-> st.labels[item.repo],
                                     issues |-> st.issues[item.repo]],
                                    u.Current[1].Name, u.Wanted[1].Name)
            IN IF found = <<>>
               THEN Tell(st, item.n, item.repo, Call("DeleteRepoLabel", <<u.Current[1].Name>>))
               ELSE Relabel(st, item, found)
       ELSE Tell(st, item.n, item.repo, Entry(u))

\* The repoUpdates of the queue run one after the other, a single worker
\* taking them in the order of updateChan
RECURSIVE OneByOne(_, _)
OneByOne(st, queue) ==
    IF queue = <<>> THEN st ELSE OneByOne(Single(st, Head(queue)), Tail(queue))

\* The labels of every repository, as sets
LabelSets(labels) == [r \in DOMAIN labels |-> {labels[r][i] : i \in DOMAIN labels[r]}]

\* No call has failed but those the server refused
OnlyRefusals == \A n \in DOMAIN calls : \A k \in DOMAIN calls[n] : calls[n][k].ok \/ calls[n][k].refused

\* C18: when DoUpdates has returned, no call having failed but those the
\* server refused, the labels of every repository and the calls that failed
\* are those of the run in which one worker takes the repoUpdates one after
\* the other: they are the same under every interleaving of the workers.
C18_OrderIndependent ==
    (Returned /\ OnlyRefusals) =>
        LET one == OneByOne([labels |-> before[1].labels, issues |-> before[1].issues,
                             failed |-> {}, ok |-> TRUE], Queue)
        IN /\ LabelSets(ghLabels) = LabelSets(one.labels)
           /\ {<<c[1], calls[c[1]][c[2]].call>> : c \in Failed} = one.failed

----------------------------------------------------------------------------
(* C19 *)

\* C19: the second of two calls of SyncLabels with the same config, time and
\* labels returns the RepoUpdates the first returned: for every repository
\* the same updates in the same order.
C19_Deterministic ==
    (Synced /\ lastSync # Nil) => updates = lastSync[1]

----------------------------------------------------------------------------
(* C20 *)

\* SyncLabels has returned no update for any repository
NoActions == \A r \in DOMAIN currLabels : Acts(r) = <<>>

----------------------------------------------------------------------------
(* C21 *)

\* LoadLabels has returned and SyncLabels has not been called yet
LoadLabelsReturned ==
    /\ pc \in {"loaded", "failed"}
    /\ DOMAIN listCalls # {}
    /\ updates = Nil /\ syncErr = Nil

\* The repositories whose call of GetRepoLabels returned an error
ListFailed == {r \in DOMAIN listCalls : \E k \in DOMAIN listCalls[r] : ~listCalls[r][k]}

\* C21: when LoadLabels has returned, GetRepoLabels has been called once for
\* every repository, the error returned is non-nil exactly when one of those
\* calls returned an error, and every repository whose call returned none is
\* in the map returned with the labels the server holds for it.
C21_EveryRepositoryListed ==
    LoadLabelsReturned =>
        /\ DOMAIN listCalls = DOMAIN ghLabels
        /\ \A r \in DOMAIN ghLabels : Len(listCalls[r]) = 1
        /\ pc = "failed" <=> ListFailed # {}
        /\ \A r \in DOMAIN ghLabels \ ListFailed :
              r \in DOMAIN currLabels /\ currLabels[r] = ghLabels[r]

\* C21 witness: LoadLabels has returned from two repositories, the call for
\* one having failed, the other listed with its labels.
C21_Witness ==
    /\ LoadLabelsReturned
    /\ ListFailed # {}
    /\ \E r \in DOMAIN ghLabels \ ListFailed : currLabels[r] # <<>>

----------------------------------------------------------------------------
(* C22 *)

----------------------------------------------------------------------------
(* C23 *)

\* C23: without --confirm no step changes the labels of a repository or the
\* labels its issues carry, and DoUpdates is not entered.
C23_NoMutationUnconfirmed ==
    [][~confirm => (ghLabels' = ghLabels /\ ghIssues' = ghIssues /\ pc' # "updating")]_vars

\* C23 witness: a run without --confirm has ended after SyncLabels returned
\* updates, a deletion and a migration among them.
C23_Witness ==
    /\ ~confirm
    /\ pc = "dryrun"
    /\ \E r \in DOMAIN currLabels : Idx(r, "migrate") # {} \/ Idx(r, "dead") # {}
    /\ \E r \in DOMAIN currLabels : Idx(r, "missing") # {} \/ Idx(r, "rename") # {}

----------------------------------------------------------------------------
(* C24 *)

\* C24: DoUpdates always terminates: whatever the batch, the issues and the
\* calls that fail, every call returning, every worker finishes and DoUpdates
\* returns
C24_Terminates == (pc = "updating") ~> (pc \in {"updated", "failed"})

----------------------------------------------------------------------------
(* C25 *)

\* The first call made for the repoUpdate n is a FindIssues that returned no
\* error and no issue
FoundNone(n) ==
    /\ calls[n][1].call = "FindIssues"
    /\ calls[n][1].ok
    /\ calls[n][1].result = <<>>

\* C25: a migrate action calls DeleteRepoLabel only when its FindIssues
\* returned no error and no issue; after a FindIssues that returned an error
\* no label is deleted
C25_DeleteOnlyWhenUnused ==
    before # Nil =>
        \A n \in Items({"migrate"}) : Places(n, "DeleteRepoLabel") # {} => FoundNone(n)

----------------------------------------------------------------------------
(* C26 *)

\* C26: every missing, rename, change and migrate action SyncLabels returns
\* has as Wanted.Name the name of a label of the required set: no label that
\* is dead or not required is created, renamed to or migrated to
C26_WantedIsRequired ==
    (Synced /\ syncErr = Nil) =>
        \A r \in DOMAIN currLabels :
            \A k \in DOMAIN Acts(r) :
                Acts(r)[k].Why \in {"missing", "rename", "change", "migrate"} =>
                    \E R \in RequiredNodes : R.label.Name = Acts(r)[k].Wanted[1].Name

----------------------------------------------------------------------------
(* C27 *)

\* The top-level labels whose DeleteAfter is set and not yet passed
PendingNodes == {n \in ConfigNodes : n.depth = 0 /\ n.label.DeleteAfter # Nil /\ ~Retired(n)}

\* The label the action u is about: the one it creates, or the one of the
\* repository it renames, changes or deletes
Subject(u) == IF u.Why = "missing" THEN u.Wanted[1] ELSE u.Current[1]

\* C27: a top-level label whose DeleteAfter is set and not yet passed is in
\* none of the maps required, archaic and dead, and SyncLabels returns no
\* missing, rename, change or dead action for its name, for a repository that
\* lists it as for one that does not
C27_PendingLeftAlone ==
    (Synced /\ syncErr = Nil) =>
        \A P \in PendingNodes :
            /\ Lower(P) \notin DOMAIN classified[1].required
            /\ Lower(P) \notin DOMAIN classified[1].archaic
            /\ Lower(P) \notin DOMAIN classified[1].dead
            /\ \A r \in DOMAIN currLabels :
                  \A k \in DOMAIN Acts(r) :
                      Acts(r)[k].Why \in {"missing", "rename", "change", "dead"} =>
                          ToLower(Subject(Acts(r)[k]).Name) # Lower(P)

\* A label of that kind is listed by one repository, under a name that
\* differs in case, and not by another
C27_Witness ==
    /\ Synced /\ syncErr = Nil
    /\ \E P \in PendingNodes :
          /\ \E r \in DOMAIN currLabels :
                \E g \in ObservedAs(r, P.label.Name) : g.Name # P.label.Name
          /\ \E r \in DOMAIN currLabels : ValidRepo(r) /\ ~Present(r, P.label.Name)

----------------------------------------------------------------------------
(* C28 *)

\* The repoUpdates whose reason is none of the five of the switch
UnknownItems == DOMAIN Queue \ Items({"missing", "change", "rename", "dead", "migrate"})

\* A worker is blocked sending an error of the repoUpdate n
Blocked(n) == \E w \in inflight : w.item.n = n /\ w.at = "blocked"

\* C28: when no worker of DoUpdates has a step left, a repoUpdate with an
\* unknown reason has had no call made and its error is in errChan, every
\* other repoUpdate of the batch has had its calls made, and the error
\* DoUpdates returns is non-nil
C28_UnknownReason ==
    (Over /\ UnknownItems # {}) =>
        /\ \A n \in UnknownItems : calls[n] = <<>> /\ ~Blocked(n)
        /\ \A n \in DOMAIN Queue \ UnknownItems : calls[n] # <<>>
        /\ errChan > 0
        /\ Returned => pc = "failed"

----------------------------------------------------------------------------
(* C29 *)

\* C29: once GetRepoLabels has failed for a repository, SyncOrg computes no
\* action (SyncLabels is not called) and returns with the error when
\* LoadLabels has returned; once SyncLabels has reported a repository that
\* fails validation, SyncOrg returns with that error; in both cases DoUpdates
\* is not called and no call that changes a repository is made
C29_AllOrNothing ==
    /\ ListFailed # {} =>
          /\ pc \in {"listing", "failed"}
          /\ classified = Nil /\ updates = Nil
          /\ before = Nil /\ calls = <<>>
    /\ syncErr # Nil =>
          /\ pc \in {"synced", "failed"}
          /\ before = Nil /\ calls = <<>>

\* SyncOrg has returned the error of LoadLabels: of two repositories the one
\* whose labels could not be listed has labels, recorded as an empty list, and
\* the configuration has labels SyncLabels would ask to create there
C29_Witness ==
    /\ pc = "failed"
    /\ Cardinality(DOMAIN listCalls) = 2
    /\ RequiredNodes # {}
    /\ \E r \in ListFailed : ghLabels[r] # <<>> /\ currLabels[r] = <<>>
    /\ DOMAIN listCalls \ ListFailed # {}

====
